---- MODULE Spec2Model ----
(***************************************************************************)
(* QA scheduling tool: build_qubo (qubo.py), solve_qubo / parse_sampleset  *)
(* (solver.py) and the part of main (app.py) that drives them.             *)
(*                                                                         *)
(* Real-valued weights are integers here (one unit = 0.1), so the default  *)
(* penalty_task 5.0 is 50 and the default base_cost 0.1 is 1.              *)
(* A Python string that is searched or split is a sequence of one-char     *)
(* strings; the ideographic comma U+3001 is the character IdeoComma.       *)
(***************************************************************************)
EXTENDS Integers, Sequences, FiniteSets, TLC

VARIABLES
    tasks,            \* list of <<task_name, task_type>>
    people,           \* list of person names
    slots,            \* number of time slots
    weights,          \* penalty_task, penalty_overlap, penalty_switch, reward_skill_match, base_cost
    pc,               \* position in the program
    i,                \* build_qubo: index of the coverage loop (line 74)
    jk,               \* build_qubo: flattened (j, k) index of the overlap loop (lines 86-87)
    bqm,              \* the dimod.BinaryQuadraticModel under construction / built
    prev,             \* history: bqm before the last construction step
    last,             \* history: the last construction step that ran (SpecPerm: all that ran, in order)
    caller,           \* who calls solve_qubo: "main" or a direct ("api") caller
    use_custom_beta,  \* main: the checkbox of line 446
    beta_min,         \* main: number input of line 454 (None when the box is off)
    beta_max,         \* main: number input of line 463 (None when the box is off)
    num_reads,        \* solver setting
    sweeps,           \* solver setting
    beta_range,       \* the beta_range argument solve_qubo receives
    params,           \* the keyword arguments solve_qubo hands to sampler.sample
    sampleset,        \* the reads the sampler returns, each with its energy
    schedule,         \* parse_sampleset: person -> slot -> task name or None
    energy,           \* parse_sampleset: the energy it returns
    assigned_tasks,   \* main: names found in the schedule (lines 574-579)
    warning           \* main: the under-coverage warning of line 581 was raised

vars == <<tasks, people, slots, weights, pc, i, jk, bqm, prev, last, caller,
          use_custom_beta, beta_min, beta_max, num_reads, sweeps, beta_range,
          params, sampleset, schedule, energy, assigned_tasks, warning>>

None == "None"

\* an absent optional number or range (Python None); a present one is <<v>> or <<lo, hi>>
Absent == <<>>

(***************************************************************************)
(* Bounds of the model.                                                    *)
(***************************************************************************)
MaxTasks == 3
MaxPeople == 2
MaxSlots == 2
MaxVars == 8
MaxMainVars == 4

(***************************************************************************)
(* Python str operations used by build_qubo, line 106 and line 114.        *)
(***************************************************************************)
Comma == ","
IdeoComma == "IDEOGRAPHIC_COMMA"
Space == " "

\* str.replace(IdeoComma, Comma)
Replace(s) == [n \in 1..Len(s) |-> IF s[n] = IdeoComma THEN Comma ELSE s[n]]

\* str.split(','): every comma separates; the result is never empty
RECURSIVE Split(_)
Split(s) ==
    IF \A n \in 1..Len(s) : s[n] # Comma
    THEN <<s>>
    ELSE LET p == CHOOSE n \in 1..Len(s) :
                      s[n] = Comma /\ \A m \in 1..(n - 1) : s[m] # Comma
         IN  <<SubSeq(s, 1, p - 1)>> \o Split(SubSeq(s, p + 1, Len(s)))

\* str.strip()
RECURSIVE Strip(_)
Strip(s) ==
    IF s = <<>> THEN s
    ELSE IF Head(s) = Space THEN Strip(Tail(s))
    ELSE IF s[Len(s)] = Space THEN Strip(SubSeq(s, 1, Len(s) - 1))
    ELSE s

\* task_type_words of line 106
TaskTypeWords(task_type) ==
    LET parts == Split(Replace(task_type))
    IN  [n \in 1..Len(parts) |-> Strip(parts[n])]

\* keyword in person_name (substring test; the empty keyword is in every name)
Contains(person_name, keyword) ==
    \E st \in 0..(Len(person_name) - Len(keyword)) :
        SubSeq(person_name, st + 1, st + Len(keyword)) = keyword

\* has_skill_match of lines 111-116
HasSkillMatch(task_type, person_name) ==
    LET words == TaskTypeWords(task_type)
    IN  \E n \in 1..Len(words) : Contains(person_name, words[n])

\* A variant that rewards once per matching keyword (no flag, no break).
SkillTimesPerKeyword(task_type, person_name) ==
    LET words == TaskTypeWords(task_type)
    IN  Cardinality({n \in 1..Len(words) : Contains(person_name, words[n])})

\* How many times lines 118-122 run for one (task, person): the flag and the
\* break make it once when any keyword matches.
SkillTimes(task_type, person_name) ==
    IF HasSkillMatch(task_type, person_name) THEN 1 ELSE 0

(***************************************************************************)
(* dimod.BinaryQuadraticModel: ordered variables, linear biases, quadratic *)
(* biases keyed by unordered pair, offset.  raised records the ValueError  *)
(* add_quadratic raises for a pair (v, v); it ends the construction.       *)
(***************************************************************************)
EmptyBQM == [variables |-> <<>>, linear |-> <<>>, quadratic |-> <<>>,
             offset |-> 0, raised |-> FALSE]

AddLinear(b, v, bias) ==
    IF b.raised THEN b
    ELSE IF v \in DOMAIN b.linear
    THEN [b EXCEPT !.linear = [b.linear EXCEPT ![v] = b.linear[v] + bias]]
    ELSE [b EXCEPT !.variables = Append(b.variables, v),
                   !.linear = b.linear @@ (v :> bias)]

AddQuadratic(b, u, v, bias) ==
    IF b.raised THEN b
    ELSE IF u = v THEN [b EXCEPT !.raised = TRUE]
    ELSE LET b1 == AddLinear(AddLinear(b, u, 0), v, 0)
             key == {u, v}
         IN  IF key \in DOMAIN b1.quadratic
             THEN [b1 EXCEPT !.quadratic =
                       [b1.quadratic EXCEPT ![key] = b1.quadratic[key] + bias]]
             ELSE [b1 EXCEPT !.quadratic = b1.quadratic @@ (key :> bias)]

AddOffset(b, c) == IF b.raised THEN b ELSE [b EXCEPT !.offset = b.offset + c]

\* a loop of add_linear calls over the list vs
RECURSIVE AddLinearAll(_, _, _)
AddLinearAll(b, vs, bias) ==
    IF vs = <<>> THEN b
    ELSE AddLinearAll(AddLinear(b, Head(vs), bias), Tail(vs), bias)

\* a loop of add_quadratic calls over the list of pairs ps
RECURSIVE AddQuadraticAll(_, _, _)
AddQuadraticAll(b, ps, bias) ==
    IF ps = <<>> THEN b
    ELSE AddQuadraticAll(AddQuadratic(b, Head(ps)[1], Head(ps)[2], bias), Tail(ps), bias)

\* itertools.combinations(vs, 2), in its order
Combinations2(vs) ==
    LET L == Len(vs)
        all == [n \in 1..(L * L) |-> <<((n - 1) \div L) + 1, ((n - 1) % L) + 1>>]
        ip == SelectSeq(all, LAMBDA p : p[1] < p[2])
    IN  [n \in 1..Len(ip) |-> <<vs[ip[n][1]], vs[ip[n][2]]>>]

RECURSIVE SumFn(_, _)
SumFn(f, S) ==
    IF S = {} THEN 0
    ELSE LET e == CHOOSE e \in S : TRUE IN f[e] + SumFn(f, S \ {e})

\* bqm.energy(x) for a sample x : variable -> {0, 1}
Energy(b, x) ==
    LET on == {v \in DOMAIN b.linear : x[v] = 1}
        keys == {key \in DOMAIN b.quadratic : key \subseteq on}
    IN  b.offset + SumFn(b.linear, on) + SumFn(b.quadratic, keys)

\* every sample over the model's variables
AllSamples(b) == [DOMAIN b.linear -> {0, 1}]

(***************************************************************************)
(* build_qubo, qubo.py lines 63-124.                                       *)
(***************************************************************************)
n_tasks == Len(tasks)
n_people == Len(people)

\* A variant of add_linear that assigns the bias instead of adding it.
SetLinear(b, v, bias) ==
    IF b.raised THEN b
    ELSE IF v \in DOMAIN b.linear
    THEN [b EXCEPT !.linear = [b.linear EXCEPT ![v] = bias]]
    ELSE [b EXCEPT !.variables = Append(b.variables, v),
                   !.linear = b.linear @@ (v :> bias)]

RECURSIVE SetLinearAll(_, _, _)
SetLinearAll(b, vs, bias) ==
    IF vs = <<>> THEN b
    ELSE SetLinearAll(SetLinear(b, Head(vs), bias), Tail(vs), bias)

\* A variant of the base-cost step that overwrites the linear biases.
BaseCostStepAssign(b) ==
    LET total == n_tasks * n_people * slots
        vs == [n \in 1..total |->
                  <<(n - 1) \div (n_people * slots),
                    ((n - 1) \div slots) % n_people,
                    (n - 1) % slots>>]
    IN  SetLinearAll(b, vs, weights.base_cost)

\* lines 68-71
BaseCostStep(b) ==
    LET total == n_tasks * n_people * slots
        vs == [n \in 1..total |->
                  <<(n - 1) \div (n_people * slots),
                    ((n - 1) \div slots) % n_people,
                    (n - 1) % slots>>]
    IN  AddLinearAll(b, vs, weights.base_cost)

\* vars_i of line 75
VarsOfTask(t) ==
    [n \in 1..(n_people * slots) |-> <<t, (n - 1) \div slots, (n - 1) % slots>>]

\* A variant whose quadratic term is penalty_task instead of 2 * penalty_task.
CoverageTaskSingleQuadratic(b, t) ==
    LET vars_i == VarsOfTask(t)
        b1 == AddLinearAll(b, vars_i, 0 - weights.penalty_task)
        b2 == AddQuadraticAll(b1, Combinations2(vars_i), weights.penalty_task)
    IN  AddOffset(b2, weights.penalty_task)

\* one iteration of the loop of lines 74-83
CoverageTask(b, t) ==
    LET vars_i == VarsOfTask(t)
        b1 == AddLinearAll(b, vars_i, 0 - weights.penalty_task)
        b2 == AddQuadraticAll(b1, Combinations2(vars_i), 2 * weights.penalty_task)
    IN  AddOffset(b2, weights.penalty_task)

\* vars_jk of line 88
VarsOfCell(j, k) == [n \in 1..n_tasks |-> <<n - 1, j, k>>]

\* one iteration of the loops of lines 86-94
OverlapCell(b, j, k) ==
    LET vars_jk == VarsOfCell(j, k)
        b1 == AddLinearAll(b, vars_jk, 0 - weights.penalty_overlap)
    IN  AddQuadraticAll(b1, Combinations2(vars_jk), 2 * weights.penalty_overlap)

\* A variant that runs k over range(slots), so that k + 1 leaves the slots.
SwitchSlotsAll == slots

\* range(slots - 1) of line 98
SwitchSlots == slots - 1

\* A variant without the type test of line 100.
SwitchPairsAnyType ==
    LET nn == n_tasks * n_tasks
        total == n_people * SwitchSlots * nn
        all == [n \in 1..total |->
                   [j |-> (n - 1) \div (SwitchSlots * nn),
                    k |-> ((n - 1) \div nn) % SwitchSlots,
                    i1 |-> ((n - 1) % nn) \div n_tasks,
                    i2 |-> (n - 1) % n_tasks]]
        sel == SelectSeq(all, LAMBDA c : c.i1 # c.i2)
    IN  [n \in 1..Len(sel) |->
            <<<<sel[n].i1, sel[n].j, sel[n].k>>, <<sel[n].i2, sel[n].j, sel[n].k + 1>>>>]

\* the pairs line 101 is called on, in loop order (lines 97-100)
SwitchPairs ==
    LET nn == n_tasks * n_tasks
        total == n_people * SwitchSlots * nn
        all == [n \in 1..total |->
                   [j |-> (n - 1) \div (SwitchSlots * nn),
                    k |-> ((n - 1) \div nn) % SwitchSlots,
                    i1 |-> ((n - 1) % nn) \div n_tasks,
                    i2 |-> (n - 1) % n_tasks]]
        sel == SelectSeq(all, LAMBDA c :
                   c.i1 # c.i2 /\ tasks[c.i1 + 1][2] # tasks[c.i2 + 1][2])
    IN  [n \in 1..Len(sel) |->
            <<<<sel[n].i1, sel[n].j, sel[n].k>>, <<sel[n].i2, sel[n].j, sel[n].k + 1>>>>]

\* lines 97-101
SwitchStep(b) == AddQuadraticAll(b, SwitchPairs, weights.penalty_switch)

\* the variables line 122 is called on, in loop order (lines 104-121)
SkillVars ==
    LET total == n_tasks * n_people * slots
        all == [n \in 1..total |->
                  <<(n - 1) \div (n_people * slots),
                    ((n - 1) \div slots) % n_people,
                    (n - 1) % slots>>]
    IN  all

RECURSIVE SkillApply(_, _)
SkillApply(b, vs) ==
    IF vs = <<>> THEN b
    ELSE LET v == Head(vs)
             times == SkillTimes(tasks[v[1] + 1][2], people[v[2] + 1])
             b1 == IF times >= 1
                   THEN AddLinear(b, v, 0 - times * weights.reward_skill_match)
                   ELSE b
         IN  SkillApply(b1, Tail(vs))

\* lines 104-122
SkillStep(b) == SkillApply(b, SkillVars)

\* A variant of the coverage loop that runs its body at least once.
RECURSIVE CoverageLoopAtLeastOnce(_, _)
CoverageLoopAtLeastOnce(b, t) ==
    IF t >= n_tasks /\ t > 0 THEN b
    ELSE CoverageLoopAtLeastOnce(CoverageTask(b, t), t + 1)

\* the loop of lines 74-83
RECURSIVE CoverageLoop(_, _)
CoverageLoop(b, t) ==
    IF t >= n_tasks THEN b ELSE CoverageLoop(CoverageTask(b, t), t + 1)

\* the loops of lines 86-94
RECURSIVE OverlapLoop(_, _)
OverlapLoop(b, n) ==
    IF n >= n_people * slots THEN b
    ELSE OverlapLoop(OverlapCell(b, n \div slots, n % slots), n + 1)

\* build_qubo as one call (what main receives at line 538)
BuildQubo ==
    SkillStep(SwitchStep(OverlapLoop(CoverageLoop(BaseCostStep(EmptyBQM), 0), 0)))

(***************************************************************************)
(* Inputs.                                                                 *)
(***************************************************************************)
TypeA == <<"a">>
TypeB == <<"b">>
TypeAB == <<"a", Comma, Space, "b">>
TypeATrail == <<"a", IdeoComma>>
Types == {TypeA, TypeB, TypeAB, TypeATrail}

PersonAB == <<"a", "b">>
PersonBC == <<"b", "c">>
PersonC == <<"c">>
PersonPool == {PersonAB, PersonBC, PersonC}

TaskNames == <<"A", "B", "C", "D", "E">>
NamePool == {"A", "B", "C"}

DefaultWeights ==
    [penalty_task |-> 50, penalty_overlap |-> 50, penalty_switch |-> 10,
     reward_skill_match |-> 20, base_cost |-> 1]
OtherWeights ==
    [penalty_task |-> 3, penalty_overlap |-> 5, penalty_switch |-> 7,
     reward_skill_match |-> 11, base_cost |-> 2]
WeightSets == {DefaultWeights, OtherWeights}

\* lists of n distinct people (validate_people rejects a repeated name)
PeopleLists(n) ==
    {p \in [1..n -> PersonPool] : \A a, b \in 1..n : a # b => p[a] # p[b]}

\* the solver and decoder state before main reaches them
SolverIdle ==
    /\ caller = "main"
    /\ use_custom_beta = FALSE
    /\ beta_min = Absent
    /\ beta_max = Absent
    /\ num_reads = 100
    /\ sweeps = 1000
    /\ beta_range = Absent
    /\ params = Absent
    /\ sampleset = <<>>
    /\ schedule = None
    /\ energy = None
    /\ assigned_tasks = {}
    /\ warning = FALSE

solverVars == <<caller, use_custom_beta, beta_min, beta_max, num_reads, sweeps,
                beta_range, params>>
decodeVars == <<sampleset, schedule, energy, assigned_tasks, warning>>
inputVars == <<tasks, people, slots, weights>>

(***************************************************************************)
(* build_qubo step by step.                                                *)
(***************************************************************************)
InitEncode ==
    /\ \E nt \in 0..MaxTasks, np \in 0..MaxPeople, s \in 1..MaxSlots :
          /\ nt * np * s <= MaxVars
          /\ \E ty \in [1..nt -> Types] :
                tasks = [n \in 1..nt |-> <<TaskNames[n], ty[n]>>]
          /\ people \in PeopleLists(np)
          /\ slots = s
    /\ weights \in WeightSets
    /\ pc = "base"
    /\ i = 0
    /\ jk = 0
    /\ bqm = EmptyBQM
    /\ prev = EmptyBQM
    /\ last = <<"new">>
    /\ SolverIdle

BaseCost ==
    /\ pc = "base"
    /\ bqm' = BaseCostStep(bqm)
    /\ prev' = bqm
    /\ last' = <<"base">>
    /\ pc' = "coverage"
    /\ i' = 0
    /\ UNCHANGED <<inputVars, jk, solverVars, decodeVars>>

Coverage ==
    /\ pc = "coverage"
    /\ i < n_tasks
    /\ bqm' = CoverageTask(bqm, i)
    /\ prev' = bqm
    /\ last' = <<"coverage", i>>
    /\ i' = i + 1
    /\ UNCHANGED <<inputVars, pc, jk, solverVars, decodeVars>>

CoverageExit ==
    /\ pc = "coverage"
    /\ i >= n_tasks
    /\ pc' = "overlap"
    /\ jk' = 0
    /\ UNCHANGED <<inputVars, i, bqm, prev, last, solverVars, decodeVars>>

Overlap ==
    /\ pc = "overlap"
    /\ jk < n_people * slots
    /\ bqm' = OverlapCell(bqm, jk \div slots, jk % slots)
    /\ prev' = bqm
    /\ last' = <<"overlap", jk \div slots, jk % slots>>
    /\ jk' = jk + 1
    /\ UNCHANGED <<inputVars, pc, i, solverVars, decodeVars>>

OverlapExit ==
    /\ pc = "overlap"
    /\ jk >= n_people * slots
    /\ pc' = "switch"
    /\ UNCHANGED <<inputVars, i, jk, bqm, prev, last, solverVars, decodeVars>>

Switch ==
    /\ pc = "switch"
    /\ bqm' = SwitchStep(bqm)
    /\ prev' = bqm
    /\ last' = <<"switch">>
    /\ pc' = "skill"
    /\ UNCHANGED <<inputVars, i, jk, solverVars, decodeVars>>

Skill ==
    /\ pc = "skill"
    /\ bqm' = SkillStep(bqm)
    /\ prev' = bqm
    /\ last' = <<"skill">>
    /\ pc' = "built"
    /\ UNCHANGED <<inputVars, i, jk, solverVars, decodeVars>>

NextEncode ==
    \/ BaseCost
    \/ Coverage
    \/ CoverageExit
    \/ Overlap
    \/ OverlapExit
    \/ Switch
    \/ Skill

SpecEncode == InitEncode /\ [][NextEncode]_vars

\* the step-by-step construction ends in the model build_qubo returns
StepsAgreeWithBuildQubo == pc = "built" => bqm = BuildQubo

(***************************************************************************)
(* solve_qubo, solver.py lines 42-55, and its call in main, app.py 547-552. *)
(***************************************************************************)
VariableThreshold == 500
SweepFloor == 2000

Max(a, b) == IF a >= b THEN a ELSE b

\* A variant whose scale guard also fires at exactly the threshold.
SolveParamsAtThreshold(b, reads, sw, br) ==
    LET p0 == [num_reads |-> reads, num_sweeps |-> sw]
        p1 == IF br # Absent THEN p0 @@ ("beta_range" :> br) ELSE p0
        num_variables == Len(b.variables)
    IN  IF num_variables >= VariableThreshold
        THEN [p1 EXCEPT !.num_sweeps = Max(sw, SweepFloor)]
        ELSE p1

\* params of lines 45-52: what solve_qubo hands to sampler.sample
SolveParams(b, reads, sw, br) ==
    LET p0 == [num_reads |-> reads, num_sweeps |-> sw]
        p1 == IF br # Absent THEN p0 @@ ("beta_range" :> br) ELSE p0
        num_variables == Len(b.variables)
    IN  IF num_variables > VariableThreshold
        THEN [p1 EXCEPT !.num_sweeps = Max(sw, SweepFloor)]
        ELSE p1

\* A variant of main's guard without the beta_min < beta_max test.
MainBetaRangeUnchecked(ucb, bmin, bmax) ==
    IF ucb /\ bmin # Absent /\ bmax # Absent
    THEN <<bmin[1], bmax[1]>>
    ELSE Absent

\* beta_range of app.py lines 548-550
MainBetaRange(ucb, bmin, bmax) ==
    IF ucb /\ bmin # Absent /\ bmax # Absent /\ bmin[1] < bmax[1]
    THEN <<bmin[1], bmax[1]>>
    ELSE Absent

\* a model with n variables and no biases
GenericBQM(n) ==
    [variables |-> [m \in 1..n |-> m - 1], linear |-> [v \in 0..(n - 1) |-> 0],
     quadratic |-> <<>>, offset |-> 0, raised |-> FALSE]

\* solver inputs (one unit of beta = 0.1); the number inputs of app.py 430-470
ModelSizes == {0, 8, VariableThreshold - 1, VariableThreshold, VariableThreshold + 1,
               2 * VariableThreshold}
SweepsSet == {100, 1000, SweepFloor - 1, SweepFloor, SweepFloor + 1, 10000}
ReadsSet == {10, 100}
BetaMins == {1, 10, 100}
BetaMaxs == {10, 50, 500}

encodeVars == <<pc, i, jk, prev, last>>

InitSolve ==
    /\ tasks = <<>>
    /\ people = <<>>
    /\ slots = 1
    /\ weights = DefaultWeights
    /\ i = 0
    /\ jk = 0
    /\ prev = EmptyBQM
    /\ last = <<"new">>
    /\ \E n \in ModelSizes : bqm = GenericBQM(n)
    /\ num_reads \in ReadsSet
    /\ sweeps \in SweepsSet
    /\ caller \in {"main", "api"}
    /\ IF caller = "main"
       THEN /\ use_custom_beta \in BOOLEAN
            /\ IF use_custom_beta
               THEN /\ beta_min \in {<<v>> : v \in BetaMins}
                    /\ beta_max \in {<<v>> : v \in BetaMaxs}
               ELSE /\ beta_min = Absent
                    /\ beta_max = Absent
            /\ beta_range = Absent
            /\ pc = "main_beta"
       ELSE /\ use_custom_beta = FALSE
            /\ beta_min = Absent
            /\ beta_max = Absent
            /\ beta_range \in {Absent} \cup (BetaMins \X BetaMaxs)
            /\ pc = "solve"
    /\ params = Absent
    /\ sampleset = <<>>
    /\ schedule = None
    /\ energy = None
    /\ assigned_tasks = {}
    /\ warning = FALSE

\* app.py lines 548-550
MainSetBetaRange ==
    /\ pc = "main_beta"
    /\ beta_range' = MainBetaRange(use_custom_beta, beta_min, beta_max)
    /\ pc' = "solve"
    /\ UNCHANGED <<inputVars, i, jk, bqm, prev, last, caller, use_custom_beta,
                   beta_min, beta_max, num_reads, sweeps, params, decodeVars>>

\* solver.py lines 45-52
SolveQuboParams ==
    /\ pc = "solve"
    /\ params' = SolveParams(bqm, num_reads, sweeps, beta_range)
    /\ pc' = "sample"
    /\ UNCHANGED <<inputVars, i, jk, bqm, prev, last, caller, use_custom_beta,
                   beta_min, beta_max, num_reads, sweeps, beta_range, decodeVars>>

NextSolve ==
    \/ MainSetBetaRange
    \/ SolveQuboParams

SpecSolve == InitSolve /\ [][NextSolve]_vars

(***************************************************************************)
(* Properties of solve_qubo (checked under SpecSolve).                     *)
(***************************************************************************)
\* C7 (as claimed): when solve_qubo is given a beta range with
\* beta_min >= beta_max, the parameters handed to the sampler are those of a
\* call without beta_range.
C7_SolverFallsBack ==
    (pc = "sample" /\ beta_range # Absent /\ beta_range[1] >= beta_range[2]) =>
        /\ DOMAIN params = {"num_reads", "num_sweeps"}
        /\ params = SolveParams(bqm, num_reads, sweeps, Absent)

\* C7 (amended): when main is given a custom beta range with
\* beta_min >= beta_max it passes beta_range = None to solve_qubo, and the
\* parameters handed to the sampler are those of a call without beta_range;
\* solve_qubo itself forwards any beta_range it is given unchanged.
C7_MainFallsBack ==
    pc = "sample" =>
        /\ (caller = "main" /\ use_custom_beta /\ beta_min[1] >= beta_max[1]) =>
              /\ beta_range = Absent
              /\ DOMAIN params = {"num_reads", "num_sweeps"}
              /\ params.num_reads = num_reads
              /\ params.num_sweeps =
                     IF Len(bqm.variables) > 500 THEN Max(sweeps, 2000) ELSE sweeps
        /\ beta_range # Absent =>
              /\ "beta_range" \in DOMAIN params
              /\ params.beta_range = beta_range

C7_Witness ==
    /\ pc = "sample"
    /\ caller = "main"
    /\ use_custom_beta
    /\ beta_min[1] >= beta_max[1]
    /\ Len(bqm.variables) > 0

\* C8: the sweep count handed to the sampler is max(sweeps, 2000) when the
\* model has more than 500 variables and the caller's sweeps otherwise (also
\* at exactly 500); it is never below the caller's sweeps.
C8_EffectiveSweeps ==
    pc = "sample" =>
        /\ params.num_sweeps =
               IF Len(bqm.variables) > 500
               THEN (IF sweeps >= 2000 THEN sweeps ELSE 2000)
               ELSE sweeps
        /\ params.num_sweeps >= sweeps

C8_Witness ==
    /\ pc = "sample"
    /\ Len(bqm.variables) = 500
    /\ sweeps < 2000
    /\ params.num_sweeps = sweeps

(***************************************************************************)
(* The sampler's result, parse_sampleset (solver.py lines 85-96) and the   *)
(* coverage report of main (app.py lines 574-582).                         *)
(***************************************************************************)
\* sampleset.first: a read of lowest energy (any of them when several tie)
FirstIndices(ss) ==
    {n \in 1..Len(ss) : \A m \in 1..Len(ss) : ss[n].energy <= ss[m].energy}

\* line 87
EmptySchedule ==
    [p \in {people[n] : n \in 1..Len(people)} |-> [k \in 0..(slots - 1) |-> None]]

\* A variant that keeps the first task written to a cell.
RECURSIVE ParseLoopFirstWins(_, _, _)
ParseLoopFirstWins(sch, vs, sample) ==
    IF vs = <<>> THEN sch
    ELSE LET v == Head(vs)
             person == people[v[2] + 1]
             sch1 == IF sample[v] = 1 /\ sch[person][v[3]] = None
                     THEN [sch EXCEPT ![person][v[3]] = tasks[v[1] + 1][1]]
                     ELSE sch
         IN  ParseLoopFirstWins(sch1, Tail(vs), sample)

\* lines 89-93: sample.items() runs over the variables in their order
RECURSIVE ParseLoop(_, _, _)
ParseLoop(sch, vs, sample) ==
    IF vs = <<>> THEN sch
    ELSE LET v == Head(vs)
             person == people[v[2] + 1]
             sch1 == IF sample[v] = 1
                     THEN [sch EXCEPT ![person][v[3]] = tasks[v[1] + 1][1]]
                     ELSE sch
         IN  ParseLoop(sch1, Tail(vs), sample)

\* A variant that looks at the first slot of each person only.
AssignedTasksFirstSlot(sch) ==
    {sch[p][k] : p \in DOMAIN sch, k \in {0}} \ {None, ""}

\* app.py lines 574-579; "if task" drops None and the empty name
AssignedTasks(sch) ==
    {sch[p][k] : p \in DOMAIN sch, k \in 0..(slots - 1)} \ {None, ""}

\* A variant of the test of line 581 that also warns at full coverage.
UnderCoverageOrEqual(count, total) == count <= total

\* app.py line 581
UnderCoverage(count, total) == count < total

TaskPool == {<<"A", TypeA>>, <<"B", TypeB>>, <<"C", TypeAB>>}
MainReads == {1, 2}

InitMain ==
    /\ \E nt \in 0..MaxTasks, np \in 0..MaxPeople, s \in 1..MaxSlots :
          /\ nt * np * s <= MaxMainVars
          /\ tasks \in [1..nt -> TaskPool]
          /\ people \in PeopleLists(np)
          /\ slots = s
    /\ weights = DefaultWeights
    /\ pc = "build"
    /\ i = 0
    /\ jk = 0
    /\ bqm = EmptyBQM
    /\ prev = EmptyBQM
    /\ last = <<"new">>
    /\ caller = "main"
    /\ use_custom_beta = FALSE
    /\ beta_min = Absent
    /\ beta_max = Absent
    /\ num_reads \in MainReads
    /\ sweeps = 1000
    /\ beta_range = Absent
    /\ params = Absent
    /\ sampleset = <<>>
    /\ schedule = None
    /\ energy = None
    /\ assigned_tasks = {}
    /\ warning = FALSE

\* app.py lines 538-546
BuildQuboCall ==
    /\ pc = "build"
    /\ bqm' = BuildQubo
    /\ pc' = "main_beta"
    /\ UNCHANGED <<inputVars, i, jk, prev, last, solverVars, decodeVars>>

\* solver.py line 54: one read of the sampler, any sample with its energy
AnnealRead ==
    /\ pc = "sample"
    /\ Len(sampleset) < params.num_reads
    /\ \E x \in AllSamples(bqm) :
          sampleset' = Append(sampleset, [sample |-> x, energy |-> Energy(bqm, x)])
    /\ UNCHANGED <<inputVars, encodeVars, bqm, solverVars, schedule, energy,
                   assigned_tasks, warning>>

\* solver.py lines 54-55: the sampler has made its reads
SampleReturn ==
    /\ pc = "sample"
    /\ Len(sampleset) = params.num_reads
    /\ pc' = "parse"
    /\ UNCHANGED <<inputVars, i, jk, prev, last, bqm, solverVars, decodeVars>>

\* solver.py lines 85-96
ParseSampleset ==
    /\ pc = "parse"
    /\ \E n \in FirstIndices(sampleset) :
          /\ schedule' = ParseLoop(EmptySchedule, bqm.variables, sampleset[n].sample)
          /\ energy' = sampleset[n].energy
    /\ pc' = "report"
    /\ UNCHANGED <<inputVars, i, jk, prev, last, bqm, solverVars, sampleset,
                   assigned_tasks, warning>>

\* app.py lines 574-582
CoverageReport ==
    /\ pc = "report"
    /\ assigned_tasks' = AssignedTasks(schedule)
    /\ warning' = UnderCoverage(Cardinality(AssignedTasks(schedule)), Len(tasks))
    /\ pc' = "done"
    /\ UNCHANGED <<inputVars, i, jk, prev, last, bqm, solverVars, sampleset,
                   schedule, energy>>

NextMain ==
    \/ BuildQuboCall
    \/ MainSetBetaRange
    \/ SolveQuboParams
    \/ AnnealRead
    \/ SampleReturn
    \/ ParseSampleset
    \/ CoverageReport

SpecMain == InitMain /\ [][NextMain]_vars

(***************************************************************************)
(* Properties of build_qubo (checked under SpecEncode).                    *)
(***************************************************************************)
\* the energy the last construction step added at sample x
StepEnergy(x) == Energy(bqm, x) - Energy(prev, x)

\* the coefficient of an unordered pair (0 when the pair has no entry)
QuadOf(b, key) == IF key \in DOMAIN b.quadratic THEN b.quadratic[key] ELSE 0

\* {(i, j, k)} of the docstring, lines 56-59
CrossProduct == (0..(n_tasks - 1)) \X (0..(n_people - 1)) \X (0..(slots - 1))

\* number of tasks active for person j in slot k
ActiveInCell(x, j, k) == Cardinality({t \in 0..(n_tasks - 1) : x[<<t, j, k>>] = 1})

\* number of active variables of task t
ActiveOfTask(x, t) ==
    Cardinality({v \in CrossProduct : v[1] = t /\ x[v] = 1})

\* C1: the overlap term of person j and slot k contributes exactly
\* penalty_overlap * (s^2 - s) to the energy, s being the number of tasks
\* active at (j, k): 0 for s <= 1 and strictly positive for s >= 2.
C1_OverlapTermEnergy ==
    last[1] = "overlap" =>
        \A x \in AllSamples(bqm) :
            LET s == ActiveInCell(x, last[2], last[3])
                d == StepEnergy(x)
            IN  /\ d = weights.penalty_overlap * (s * s - s)
                /\ (s <= 1 => d = 0)
                /\ (s >= 2 => d > 0)

\* What lines 88-94 add instead: linear -B on each variable and 2B on each
\* pair give penalty_overlap * (s^2 - 2s), which is -B at s = 1 and 0 at s = 2.
OverlapTermAsCoded ==
    last[1] = "overlap" =>
        \A x \in AllSamples(bqm) :
            LET s == ActiveInCell(x, last[2], last[3])
            IN  StepEnergy(x) = weights.penalty_overlap * (s * s - 2 * s)

\* C2: the coverage term of task i equals penalty_task * (s - 1)^2 for s active
\* variables of task i: exactly 0 at s = 1, strictly positive at s = 0 and s >= 2.
C2_CoverageTermEnergy ==
    last[1] = "coverage" =>
        \A x \in AllSamples(bqm) :
            LET s == ActiveOfTask(x, last[2])
                d == StepEnergy(x)
            IN  /\ d = weights.penalty_task * (s - 1) * (s - 1)
                /\ (s = 1 => d = 0)
                /\ (s # 1 => d > 0)

C2_Witness ==
    /\ last[1] = "coverage"
    /\ weights.penalty_task > 0
    /\ \E x, y, z \in AllSamples(bqm) :
          /\ ActiveOfTask(x, last[2]) = 0
          /\ ActiveOfTask(y, last[2]) = 1
          /\ ActiveOfTask(z, last[2]) >= 2

\* some keyword of task t is a substring of the name of person j
KeywordInName(t, j) ==
    LET words == TaskTypeWords(tasks[t + 1][2])
    IN  \E n \in 1..Len(words) : Contains(people[j + 1], words[n])

\* at least two keywords of task t are substrings of the name of person j
SeveralKeywordsInName(t, j) ==
    LET words == TaskTypeWords(tasks[t + 1][2])
    IN  \E n, m \in 1..Len(words) :
            /\ n # m
            /\ Contains(people[j + 1], words[n])
            /\ Contains(people[j + 1], words[m])

\* C3: when a keyword of task i is in person j's name and none is in person
\* j2's name, the built linear coefficient of (i, j, k) is lower than that of
\* (i, j2, k) by exactly reward_skill_match, for every slot k (once per pair,
\* however many keywords match).
C3_SkillRewardExact ==
    pc = "built" =>
        \A t \in 0..(n_tasks - 1), j \in 0..(n_people - 1), j2 \in 0..(n_people - 1),
           k \in 0..(slots - 1) :
            (KeywordInName(t, j) /\ ~KeywordInName(t, j2)) =>
                bqm.linear[<<t, j2, k>>] - bqm.linear[<<t, j, k>>]
                    = weights.reward_skill_match

C3_Witness ==
    /\ pc = "built"
    /\ \E t \in 0..(n_tasks - 1), j \in 0..(n_people - 1), j2 \in 0..(n_people - 1) :
          /\ SeveralKeywordsInName(t, j)
          /\ ~KeywordInName(t, j2)

\* the pairs the context-switch step is specified to touch
IsSwitchPair(key) ==
    \E u \in key, v \in key :
        /\ u[2] = v[2]
        /\ v[3] = u[3] + 1
        /\ u[1] # v[1]
        /\ tasks[u[1] + 1][2] # tasks[v[1] + 1][2]

\* active (person, consecutive slots, ordered pair of distinct tasks of
\* different types) combinations of sample x
ActiveSwitches(x) ==
    {c \in (0..(n_people - 1)) \X (0..(slots - 2)) \X (0..(n_tasks - 1)) \X (0..(n_tasks - 1)) :
        /\ c[3] # c[4]
        /\ tasks[c[3] + 1][2] # tasks[c[4] + 1][2]
        /\ x[<<c[3], c[1], c[2]>>] = 1
        /\ x[<<c[4], c[1], c[2] + 1>>] = 1}

C5_VariablesAreCrossProduct ==
    pc # "base" =>
        /\ {bqm.variables[n] : n \in 1..Len(bqm.variables)} = CrossProduct
        /\ Len(bqm.variables) = n_tasks * n_people * slots
        /\ DOMAIN bqm.linear = CrossProduct
        /\ ~bqm.raised
        /\ \A key \in DOMAIN bqm.quadratic :
              Cardinality(key) = 2 /\ key \subseteq CrossProduct

C5_Witness ==
    /\ pc = "built"
    /\ n_tasks >= 2
    /\ n_people >= 2
    /\ slots >= 2
    /\ \E t, u \in 0..(n_tasks - 1) : tasks[t + 1][2] # tasks[u + 1][2]
    /\ DOMAIN bqm.quadratic # {}

(***************************************************************************)
(* Properties of parse_sampleset and the coverage report (SpecMain).       *)
(***************************************************************************)
\* the tasks active for person j in slot k in sample x
ActiveTasksAt(x, j, k) == {t \in 0..(n_tasks - 1) : x[<<t, j, k>>] = 1}

MaxOf(S) == CHOOSE t \in S : \A u \in S : u <= t

UniqueTaskNames ==
    \A a, b \in 1..Len(tasks) : a # b => tasks[a][1] # tasks[b][1]

\* C6: the schedule has exactly one cell per (person, slot); the cell of
\* (j, k) is None iff no variable (i, j, k) of the best sample is 1, and
\* otherwise names the active task of highest index i (the last one written
\* in ascending order of i); the returned energy is that of the same sample.
C6_ParseLastWriteWins ==
    pc \in {"report", "done"} =>
        \E n \in FirstIndices(sampleset) :
            LET best == sampleset[n].sample
            IN  /\ DOMAIN schedule = {people[j] : j \in 1..Len(people)}
                /\ \A j \in 0..(n_people - 1) :
                      /\ DOMAIN schedule[people[j + 1]] = 0..(slots - 1)
                      /\ \A k \in 0..(slots - 1) :
                            LET act == ActiveTasksAt(best, j, k)
                                cell == schedule[people[j + 1]][k]
                            IN  /\ (cell = None) <=> (act = {})
                                /\ act # {} => cell = tasks[MaxOf(act) + 1][1]
                /\ energy = sampleset[n].energy
                /\ energy = Energy(bqm, best)

C6_Witness ==
    /\ pc = "report"
    /\ Len(sampleset) = 2
    /\ sampleset[1].energy # sampleset[2].energy
    /\ \E n \in FirstIndices(sampleset), j \in 0..(n_people - 1) :
          /\ energy = sampleset[n].energy
          /\ \E k \in 0..(slots - 1) :
                \E t, u \in ActiveTasksAt(sampleset[n].sample, j, k) :
                    t < u /\ tasks[t + 1][1] # tasks[u + 1][1]
          /\ \E k \in 0..(slots - 1) : schedule[people[j + 1]][k] = None

Min(a, b) == IF a <= b THEN a ELSE b

\* C9: with unique task names the reported coverage count (distinct task
\* names in the schedule) is at most min(len(tasks), len(people) * slots);
\* so when len(tasks) > len(people) * slots the count is below len(tasks) and
\* the warning is raised; the warning is raised exactly when count < len(tasks).
C9_CoverageCountBounded ==
    (pc = "done" /\ UniqueTaskNames) =>
        /\ assigned_tasks =
               {schedule[p][k] : p \in DOMAIN schedule, k \in 0..(slots - 1)} \ {None}
        /\ Cardinality(assigned_tasks) <= Min(n_tasks, n_people * slots)
        /\ n_tasks > n_people * slots =>
               (Cardinality(assigned_tasks) < n_tasks /\ warning)
        /\ warning <=> (Cardinality(assigned_tasks) < n_tasks)

C9_Witness ==
    /\ pc = "done"
    /\ UniqueTaskNames
    /\ n_people >= 1
    /\ n_tasks > n_people * slots
    /\ Cardinality(assigned_tasks) = n_people * slots
    /\ warning

\* C10: for an empty tasks list and non-empty people, build_qubo returns a
\* model with no variables, no non-zero linear or quadratic entry and offset
\* 0, and decoding its best sample gives a schedule whose every cell is None.
C10_EmptyTasks ==
    (tasks = <<>> /\ people # <<>>) =>
        /\ pc # "build" =>
              /\ bqm.variables = <<>>
              /\ \A v \in DOMAIN bqm.linear : bqm.linear[v] = 0
              /\ \A key \in DOMAIN bqm.quadratic : bqm.quadratic[key] = 0
              /\ bqm.offset = 0
              /\ ~bqm.raised
        /\ pc \in {"report", "done"} =>
              /\ DOMAIN schedule = {people[j] : j \in 1..Len(people)}
              /\ \A p \in DOMAIN schedule :
                    /\ DOMAIN schedule[p] = 0..(slots - 1)
                    /\ \A k \in 0..(slots - 1) : schedule[p][k] = None

C10_Witness ==
    /\ tasks = <<>>
    /\ Len(people) = 2
    /\ slots = 2
    /\ pc = "done"
    /\ \A p \in DOMAIN schedule : \A k \in 0..(slots - 1) : schedule[p][k] = None

(***************************************************************************)
(* The five construction steps of build_qubo applied in any order.         *)
(***************************************************************************)
StepNames == {"base", "coverage", "overlap", "switch", "skill"}

\* the order of the code, lines 67-122
CodeOrder == <<"base", "coverage", "overlap", "switch", "skill">>

\* one whole construction step applied to the model b
StepOn(name, b) ==
    CASE name = "base" -> BaseCostStep(b)
      [] name = "coverage" -> CoverageLoop(b, 0)
      [] name = "overlap" -> OverlapLoop(b, 0)
      [] name = "switch" -> SwitchStep(b)
      [] name = "skill" -> SkillStep(b)

\* the steps that ran so far
Applied == {last[n] : n \in 1..Len(last)}

InitPerm ==
    /\ \E nt \in 0..MaxTasks, np \in 0..MaxPeople, s \in 1..MaxSlots :
          /\ nt * np * s <= MaxMainVars
          /\ \E ty \in [1..nt -> Types] :
                tasks = [n \in 1..nt |-> <<TaskNames[n], ty[n]>>]
          /\ people \in PeopleLists(np)
          /\ slots = s
    /\ weights = OtherWeights
    /\ pc = "perm"
    /\ i = 0
    /\ jk = 0
    /\ bqm = EmptyBQM
    /\ prev = EmptyBQM
    /\ last = <<>>
    /\ SolverIdle

\* the step `name` runs next, whatever ran before it
PermStep(name) ==
    /\ pc = "perm"
    /\ name \notin Applied
    /\ bqm' = StepOn(name, bqm)
    /\ prev' = bqm
    /\ last' = Append(last, name)
    /\ UNCHANGED <<inputVars, pc, i, jk, solverVars, decodeVars>>

PermBase == PermStep("base")
PermCoverage == PermStep("coverage")
PermOverlap == PermStep("overlap")
PermSwitch == PermStep("switch")
PermSkill == PermStep("skill")

NextPerm ==
    \/ PermBase
    \/ PermCoverage
    \/ PermOverlap
    \/ PermSwitch
    \/ PermSkill

SpecPerm == InitPerm /\ [][NextPerm]_vars

\* the linear coefficient of a variable (0 when the model does not hold it)
LinOf(b, v) == IF v \in DOMAIN b.linear THEN b.linear[v] ELSE 0

\* C11: the five construction steps only add to the coefficients: a step adds
\* the same amounts whatever ran before it (it overwrites nothing), and in
\* every permutation the five steps end in the linear map, quadratic map and
\* offset that the order of the code gives.
C11_OrderIndependent ==
    pc = "perm" =>
        /\ ~bqm.raised
        /\ Len(last) >= 1 =>
              LET alone == StepOn(last[Len(last)], EmptyBQM)
              IN  /\ \A v \in CrossProduct :
                        LinOf(bqm, v) - LinOf(prev, v) = LinOf(alone, v)
                  /\ \A u \in CrossProduct, v \in CrossProduct :
                        u # v => QuadOf(bqm, {u, v}) - QuadOf(prev, {u, v})
                                     = QuadOf(alone, {u, v})
                  /\ bqm.offset - prev.offset = alone.offset
                  /\ DOMAIN bqm.linear \subseteq CrossProduct
                  /\ \A key \in DOMAIN bqm.quadratic : key \subseteq CrossProduct
        /\ Len(last) = 5 =>
              /\ bqm.linear = BuildQubo.linear
              /\ bqm.quadratic = BuildQubo.quadratic
              /\ bqm.offset = BuildQubo.offset

C11_Witness ==
    /\ pc = "perm"
    /\ Len(last) = 5
    /\ last[1] = "skill"
    /\ last[2] = "switch"
    /\ last[5] = "base"
    /\ DOMAIN bqm.quadratic # {}
    /\ \E key \in DOMAIN bqm.quadratic : IsSwitchPair(key)
    /\ \E t \in 0..(n_tasks - 1), j \in 0..(n_people - 1) : KeywordInName(t, j)
    /\ bqm.linear = BuildQubo.linear

(***************************************************************************)
(* Coverage report against the best sample (SpecMain).                     *)
(***************************************************************************)
\* the reads of lowest energy whose decoding is the schedule
ParsedReads ==
    {n \in FirstIndices(sampleset) :
        schedule = ParseLoop(EmptySchedule, bqm.variables, sampleset[n].sample)}

\* task t has an active variable in sample x
TaskActive(x, t) == \E v \in DOMAIN x : v[1] = t /\ x[v] = 1

\* task t is the active task of highest index in some cell of sample x
TaskWinsCell(x, t) ==
    \E j \in 0..(n_people - 1), k \in 0..(slots - 1) :
        /\ ActiveTasksAt(x, j, k) # {}
        /\ MaxOf(ActiveTasksAt(x, j, k)) = t

\* C12 (as claimed): with unique task names a task is counted as assigned
\* iff at least one of its variables is 1 in the best sample; an overlap never
\* makes an active task count as unassigned.
C12_CountedIffActive ==
    (pc = "done" /\ UniqueTaskNames) =>
        \E n \in ParsedReads :
            \A t \in 0..(n_tasks - 1) :
                (tasks[t + 1][1] \in assigned_tasks)
                    <=> TaskActive(sampleset[n].sample, t)

\* C12 (amended): with unique task names a task is counted as assigned iff it
\* is the active task of highest index in at least one (person, slot) cell of
\* the best sample; so a counted task is active, and an active task whose
\* every active variable shares its cell with an active task of higher index
\* is counted as unassigned.
C12_CountedIffWinsCell ==
    (pc = "done" /\ UniqueTaskNames) =>
        \E n \in ParsedReads :
            \A t \in 0..(n_tasks - 1) :
                /\ (tasks[t + 1][1] \in assigned_tasks)
                       <=> TaskWinsCell(sampleset[n].sample, t)
                /\ (tasks[t + 1][1] \in assigned_tasks)
                       => TaskActive(sampleset[n].sample, t)

C12_Witness ==
    /\ pc = "done"
    /\ UniqueTaskNames
    /\ slots >= 2
    /\ Len(sampleset) = 1
    /\ \E t, u \in 0..(n_tasks - 1) :
          /\ TaskActive(sampleset[1].sample, t)
          /\ ~TaskWinsCell(sampleset[1].sample, t)
          /\ tasks[t + 1][1] \notin assigned_tasks
          /\ tasks[u + 1][1] \in assigned_tasks
    /\ warning

(***************************************************************************)
(* Keywords of the skill match (SpecEncode).                               *)
(***************************************************************************)
\* some non-empty keyword of task t is a substring of the name of person j
NonEmptyKeywordInName(t, j) ==
    LET words == TaskTypeWords(tasks[t + 1][2])
    IN  \E n \in 1..Len(words) :
            words[n] # <<>> /\ Contains(people[j + 1], words[n])

\* C13: the skill step rewards a (task i, person j) pair only if the name of
\* person j contains a non-empty keyword of the type of task i; an empty token
\* (a trailing or doubled comma) does not make every person match.
C13_RewardNeedsNonEmptyKeyword ==
    last = <<"skill">> =>
        \A v \in CrossProduct :
            bqm.linear[v] # prev.linear[v] => NonEmptyKeywordInName(v[1], v[2])

\* What lines 106-116 do: the empty token is a keyword like any other, and it
\* is a substring of every name.
SkillRewardAsCoded ==
    last = <<"skill">> =>
        \A v \in CrossProduct :
            bqm.linear[v] - prev.linear[v] =
                IF KeywordInName(v[1], v[2]) THEN 0 - weights.reward_skill_match ELSE 0

====
